---- MODULE Spec2Model ----
(***************************************************************************)
(* Model of svix-server/src/core/security.rs: bearer-token verification,    *)
(* the claim-to-permission resolver, the three request guards             *)
(* (AuthenticatedOrganization, AuthenticatedOrganizationWithApplication,   *)
(* AuthenticatedApplication), token minting, and the Encryption helper.    *)
(***************************************************************************)
EXTENDS Integers, Sequences, FiniteSets, TLC

VARIABLES
    pc,        \* where the one request being served stands: idle, awaiting, done
    guard,     \* which extractor serves it
    req,       \* the request parts the extractor reads
    resolved,  \* Option<Result<Permissions>>: what Permissions::from_request gave
    lookup,    \* the secure_find_by_id_or_uid call in flight, with its answer
    calls,     \* how many lookups this request issued
    db,        \* the application table as it stood when the lookup ran
    result,    \* Option<Result<..>>: what the extractor returned
    enc,       \* the Encryption value: Option<Key>
    rngLog,    \* the nonces thread_rng() handed out, one per draw, oldest first
    last,      \* Option: the last encrypt call, its data and what it returned
    dec        \* Option: the last decrypt call since the last encrypt, input and outcome

authVars == <<pc, guard, req, resolved, lookup, calls, db, result>>
encVars == <<enc, rngLog, last, dec>>
vars == <<pc, guard, req, resolved, lookup, calls, db, result, enc, rngLog, last, dec>>

----------------------------------------------------------------------------
\* Bounds of the model.
NumKeys == 2       \* HS256 secrets 1..NumKeys
NumOrgs == 2       \* well-formed organization ids
NumApps == 2       \* well-formed application ids
NumEncKeys == 2    \* main keys an Encryption may be built from
NumNonces == 2     \* values the random generator may return
MaxDataLen == 1    \* bytes of a plaintext
MaxEncrypts == 2   \* encrypt calls recorded

----------------------------------------------------------------------------
\* Option<T> and Result<T, E>.
None == <<>>
Some(x) == <<x>>
IsSome(o) == Len(o) = 1
Unwrap(o) == o[1]

Ok(v) == [ok |-> TRUE, val |-> v, err |-> None]
Err(e) == [ok |-> FALSE, val |-> None, err |-> Some(e)]
ErrOf(r) == Unwrap(r.err)

\* Strings that matter only by their identifier shape: a literal prefix followed
\* by payload characters (a positive number is an alphanumeric character, 0 any
\* other character).
Str(prefix, payload) == <<prefix, payload>>
OrgIdStr(i) == Str("org_", <<i>>)
AppIdStr(i) == Str("app_", <<i>>)
UidStr == Str("uid-", <<1>>)
OrgIdStrs == {OrgIdStr(i) : i \in 1..NumOrgs}
AppIdStrs == {AppIdStr(i) : i \in 1..NumApps}
MalformedStrs == {Str("not-an-", <<1>>), Str("org_", <<0>>)}

\* Identifier validation (BaseId::validate of core/types.rs): the prefix, then a
\* payload of the fixed length made of alphanumeric characters.
PayloadLen == 1
ValidateId(s, prefix) ==
    /\ s[1] = prefix
    /\ Len(s[2]) = PayloadLen
    /\ \A i \in 1..Len(s[2]) : s[2][i] > 0
ValidateOrganizationId(s) == ValidateId(s, "org_")
ValidateApplicationId(s) == ValidateId(s, "app_")

----------------------------------------------------------------------------
\* crate::error: HttpError constructors and the Error enum.
HttpError(kind, code, detail) ==
    [variant |-> "Http", kind |-> kind, code |-> code, detail |-> detail]
unauthorized(code, detail) == HttpError("Unauthorized", code, detail)
bad_request(code, detail) == HttpError("BadRequest", code, detail)
permission_denied(code, detail) == HttpError("PermissionDenied", code, detail)
not_found(code, detail) == HttpError("NotFound", code, detail)
internal_server_errer(code, detail) == HttpError("InternalServerError", code, detail)
DatabaseError(e) ==
    [variant |-> "Database", kind |-> "DbErr", code |-> None, detail |-> Some(<<e>>)]

to_internal_server_error == internal_server_errer(None, None)

----------------------------------------------------------------------------
\* JWT claims, serialization and HS256 signing (jwt_simple, as the file uses it).
JWT_ISSUER == "svix-server"
ORG_TOKEN_HOURS == 24 * 365 * 10
APP_TOKEN_HOURS == 24 * 28

\* Claims::with_custom_claims(custom, valid_for), issued at time now (in hours).
with_custom_claims(custom, valid_for, now) ==
    [custom |-> custom, exp |-> now + valid_for, iss |-> None, sub |-> None]
with_issuer(c, iss) == [c EXCEPT !.iss = Some(iss)]
with_subject(c, sub) == [c EXCEPT !.sub = Some(sub)]

\* CustomClaim { organization }: serialized as field "org", left out when None
\* (skip_serializing_if), and read back as None when the field is missing (default).
SerializeClaims(c) ==
    LET fields == {"exp"}
                  \cup (IF IsSome(c.sub) THEN {"sub"} ELSE {})
                  \cup (IF IsSome(c.iss) THEN {"iss"} ELSE {})
                  \cup (IF IsSome(c.custom.organization) THEN {"org"} ELSE {})
    IN [f \in fields |->
          CASE f = "exp" -> Str("", <<c.exp>>)
            [] f = "sub" -> Unwrap(c.sub)
            [] f = "iss" -> Str(Unwrap(c.iss), <<>>)
            [] f = "org" -> Unwrap(c.custom.organization)]
DeserializeClaims(payload) ==
    [subject |-> IF "sub" \in DOMAIN payload THEN Some(payload["sub"]) ELSE None,
     custom |-> [organization |->
                   IF "org" \in DOMAIN payload THEN Some(payload["org"]) ELSE None]]

\* The HS256 tag of a payload under a key: equal exactly for equal key and payload.
Hs256(key, payload) == <<key, payload>>
\* HS256Key::authenticate: the compact token, payload and tag.
authenticate(key, c) ==
    [payload |-> SerializeClaims(c), tag |-> Hs256(key, SerializeClaims(c))]
\* HS256Key::verify_token::<CustomClaim>(token, None): tag and expiry; no issuer is
\* required since the options are None.
verify_token(key, token, now) ==
    IF token.tag /= Hs256(key, token.payload) THEN Err("InvalidSignature")
    ELSE IF now > token.payload["exp"][2][1] THEN Err("TokenHasExpired")
    ELSE Ok(DeserializeClaims(token.payload))

\* Keys::new(secret): the key is the secret.
KeysNew(secret) == [key |-> secret]

generate_org_token(keys, org_id, now) ==
    authenticate(keys.key,
        with_subject(
            with_issuer(
                with_custom_claims([organization |-> None], ORG_TOKEN_HOURS, now),
                JWT_ISSUER),
            org_id))

\* generate_app_token with the two identifiers in each other's place.
generate_app_tokenSwapped(keys, org_id, app_id, now) ==
    authenticate(keys.key,
        with_subject(
            with_issuer(
                with_custom_claims([organization |-> Some(app_id)], APP_TOKEN_HOURS, now),
                JWT_ISSUER),
            org_id))

generate_app_token(keys, org_id, app_id, now) ==
    authenticate(keys.key,
        with_subject(
            with_issuer(
                with_custom_claims([organization |-> Some(org_id)], APP_TOKEN_HOURS, now),
                JWT_ISSUER),
            app_id))

----------------------------------------------------------------------------
\* Permissions and the resolver.
Permissions(type_, org_id, app_id) ==
    [type_ |-> type_, org_id |-> org_id, app_id |-> app_id]

\* The grave accent that the messages put around a field name.
BT == "U+0060"
bad_token(field, id_type) ==
    bad_request(Some("bad token"),
                Some(<<BT, field, BT, " is not a valid ", id_type, " id">>))

\* ResolveClaims with the application branch tagging its result Organization.
ResolveClaimsWrongType(claims) ==
    IF IsSome(claims.custom.organization)
    THEN LET org_id == Unwrap(claims.custom.organization) IN
         IF ~ValidateOrganizationId(org_id)
         THEN Err(bad_token("org", "organization"))
         ELSE IF IsSome(claims.subject)
              THEN LET app_id == Unwrap(claims.subject) IN
                   IF ~ValidateApplicationId(app_id)
                   THEN Err(bad_token("sub", "application"))
                   ELSE Ok(Permissions("Organization", org_id, Some(app_id)))
              ELSE Err(unauthorized(None, Some(<<"Invalid token (missing ", BT, "sub", BT, ").">>)))
    ELSE IF IsSome(claims.subject)
         THEN LET org_id == Unwrap(claims.subject) IN
              IF ~ValidateOrganizationId(org_id)
              THEN Err(bad_request(Some("bad_token"),
                                   Some(<<BT, "sub' is not a valid organization id.">>)))
              ELSE Ok(Permissions("Organization", org_id, None))
         ELSE Err(unauthorized(None, Some(<<"Invalid token (missing ", BT, "sub", BT, ").">>)))

\* ResolveClaims looking at the subject before the organization field.
ResolveClaimsSubjectFirst(claims) ==
    IF ~IsSome(claims.subject)
    THEN Err(unauthorized(None, Some(<<"Invalid token (missing ", BT, "sub", BT, ").">>)))
    ELSE IF IsSome(claims.custom.organization)
    THEN LET org_id == Unwrap(claims.custom.organization)
             app_id == Unwrap(claims.subject) IN
         IF ~ValidateApplicationId(app_id)
         THEN Err(bad_token("sub", "application"))
         ELSE IF ~ValidateOrganizationId(org_id)
              THEN Err(bad_token("org", "organization"))
              ELSE Ok(Permissions("Application", org_id, Some(app_id)))
    ELSE LET org_id == Unwrap(claims.subject) IN
         IF ~ValidateOrganizationId(org_id)
         THEN Err(bad_request(Some("bad_token"),
                              Some(<<BT, "sub' is not a valid organization id.">>)))
         ELSE Ok(Permissions("Organization", org_id, None))

\* Lines 91-136 of Permissions::from_request: the branching on the verified claims.
ResolveClaims(claims) ==
    IF IsSome(claims.custom.organization)
    THEN LET org_id == Unwrap(claims.custom.organization) IN
         IF ~ValidateOrganizationId(org_id)
         THEN Err(bad_token("org", "organization"))
         ELSE IF IsSome(claims.subject)
              THEN LET app_id == Unwrap(claims.subject) IN
                   IF ~ValidateApplicationId(app_id)
                   THEN Err(bad_token("sub", "application"))
                   ELSE Ok(Permissions("Application", org_id, Some(app_id)))
              ELSE Err(unauthorized(None, Some(<<"Invalid token (missing ", BT, "sub", BT, ").">>)))
    ELSE IF IsSome(claims.subject)
         THEN LET org_id == Unwrap(claims.subject) IN
              IF ~ValidateOrganizationId(org_id)
              THEN Err(bad_request(Some("bad_token"),
                                   Some(<<BT, "sub' is not a valid organization id.">>)))
              ELSE Ok(Permissions("Organization", org_id, None))
         ELSE Err(unauthorized(None, Some(<<"Invalid token (missing ", BT, "sub", BT, ").">>)))

\* Permissions::from_request: the Configuration extension, the bearer header, the
\* token verification, then the branching.
PermissionsFromRequest(r) ==
    IF ~IsSome(r.cfg) THEN Err(to_internal_server_error)
    ELSE IF ~IsSome(r.bearer)
         THEN Err(unauthorized(None, Some(<<"Invalid token">>)))
         ELSE LET claims == verify_token(Unwrap(r.cfg).jwt_secret.key,
                                         Unwrap(r.bearer), r.now)
              IN IF ~claims.ok
                 THEN Err(unauthorized(None, Some(<<"Invalid token">>)))
                 ELSE ResolveClaims(claims.val)

----------------------------------------------------------------------------
\* The application table and the lookup collaborator.
ApplicationModel(id, org_id, uid) == [id |-> id, org_id |-> org_id, uid |-> uid]
\* Tables: the id is the primary key, so a table gives each application id no row
\* or one row, of some organization, without a uid or with one (a uid is any
\* name, one that reads like an application id included).
RowData == {None} \cup {Some([org_id |-> o, uid |-> u]) :
                          o \in OrgIdStrs, u \in {None, Some(UidStr), Some(AppIdStr(1))}}
Stores ==
    {{ApplicationModel(id, Unwrap(t[id]).org_id, Unwrap(t[id]).uid) :
         id \in {i \in AppIdStrs : IsSome(t[i])}} :
       t \in [AppIdStrs -> RowData]}

\* application::Entity::secure_find_by_id_or_uid(org_id, id_or_uid): the rows of
\* that organization whose id or uid is the given string.
secure_find_by_id_or_uid(store, org_id, id_or_uid) ==
    {a \in store : a.org_id = org_id /\ (a.id = id_or_uid \/ a.uid = Some(id_or_uid))}
\* .one(db).await: a database error, or no row, or one of the matching rows.
OneAnswers(store, org_id, id_or_uid) ==
    {Err(DatabaseError("connection"))}
    \cup (IF secure_find_by_id_or_uid(store, org_id, id_or_uid) = {}
          THEN {Ok(None)}
          ELSE {Ok(Some(a)) : a \in secure_find_by_id_or_uid(store, org_id, id_or_uid)})

----------------------------------------------------------------------------
\* The guards, as the code runs them between suspensions.

\* AuthenticatedOrganization::from_request, whole.
AuthenticatedOrganizationFromRequest(r) ==
    LET permissions == PermissionsFromRequest(r) IN
    IF ~permissions.ok THEN permissions
    ELSE IF permissions.val.type_ = "Application"
         THEN Err(permission_denied(None, None))
         ELSE Ok([permissions |-> permissions.val, app |-> None])

\* The Path and Extension<DatabaseConnection> extractions of both lookup guards, and
\* the arguments of the lookup they then issue.
ExtractLookupArgs(r, permissions) ==
    IF ~IsSome(r.path) THEN Err(to_internal_server_error)
    ELSE IF ~r.db THEN Err(to_internal_server_error)
    ELSE Ok([org_id |-> permissions.org_id, id_or_uid |-> Unwrap(r.path)])

\* OrgWithAppBeforeLookup without the match on the key type.
OrgWithAppBeforeLookupAnyType(r) ==
    LET permissions == PermissionsFromRequest(r) IN
    IF ~permissions.ok THEN permissions
    ELSE ExtractLookupArgs(r, permissions.val)

\* AuthenticatedOrganizationWithApplication::from_request up to the lookup: an early
\* return, or the lookup to issue.
OrgWithAppBeforeLookup(r) ==
    LET permissions == PermissionsFromRequest(r) IN
    IF ~permissions.ok THEN permissions
    ELSE IF permissions.val.type_ = "Application"
         THEN Err(permission_denied(None, None))
         ELSE ExtractLookupArgs(r, permissions.val)

\* ... and from the lookup's answer on.
OrgWithAppAfterLookup(permissions, answer) ==
    IF ~answer.ok THEN answer
    ELSE IF ~IsSome(answer.val) THEN Err(not_found(None, None))
    ELSE Ok([permissions |-> permissions, app |-> answer.val])

\* AuthenticatedApplication::from_request up to the lookup.
AppBeforeLookup(r) ==
    LET permissions == PermissionsFromRequest(r) IN
    IF ~permissions.ok THEN permissions
    ELSE ExtractLookupArgs(r, permissions.val)

\* PermittedAppCheck answering a mismatch with PermissionDenied.
PermittedAppCheckDenied(permissions, app) ==
    IF IsSome(permissions.app_id) /\ Unwrap(permissions.app_id) /= app.id
    THEN Err(permission_denied(None, None))
    ELSE Ok([permissions |-> permissions, app |-> Some(app)])

\* PermittedAppCheck without the comparison.
PermittedAppCheckSkipped(permissions, app) ==
    Ok([permissions |-> permissions, app |-> Some(app)])

\* Lines 238-242: the row must be the token's application when the token names one.
PermittedAppCheck(permissions, app) ==
    IF IsSome(permissions.app_id) /\ Unwrap(permissions.app_id) /= app.id
    THEN Err(not_found(None, None))
    ELSE Ok([permissions |-> permissions, app |-> Some(app)])

\* ... and from the lookup's answer on.
AppAfterLookup(permissions, answer) ==
    IF ~answer.ok THEN answer
    ELSE IF ~IsSome(answer.val) THEN Err(not_found(None, None))
    ELSE PermittedAppCheck(permissions, Unwrap(answer.val))

----------------------------------------------------------------------------
\* The requests that may arrive.
Secrets == 1..NumKeys
CfgOpts == {None} \cup {Some([jwt_secret |-> KeysNew(k)]) : k \in Secrets}
SubStrs == OrgIdStrs \cup AppIdStrs \cup MalformedStrs
OrgClaimStrs == OrgIdStrs \cup MalformedStrs
\* Tokens anyone holding a secret can sign: any subject, any org field.
CraftedTokens ==
    {authenticate(k,
        [custom |-> [organization |-> org], exp |-> APP_TOKEN_HOURS,
         iss |-> Some(JWT_ISSUER), sub |-> sub]) :
        k \in Secrets,
        sub \in {None} \cup {Some(x) : x \in SubStrs},
        org \in {None} \cup {Some(x) : x \in OrgClaimStrs}}
\* Tokens the minting functions give at time 0.
MintedTokens ==
    {generate_org_token(KeysNew(k), o, 0) : k \in Secrets, o \in OrgClaimStrs}
    \cup {generate_app_token(KeysNew(k), o, a, 0) :
            k \in Secrets, o \in OrgIdStrs, a \in AppIdStrs}
Tokens == CraftedTokens \cup MintedTokens
\* Arrival times: at minting, after the application window, after the organization window.
ClockPoints == {0, APP_TOKEN_HOURS + 1, ORG_TOKEN_HOURS + 1}
PathStrs == AppIdStrs \cup {UidStr}
Requests ==
    [cfg : CfgOpts,
     bearer : {None} \cup {Some(t) : t \in Tokens},
     now : ClockPoints,
     path : {None} \cup {Some(x) : x \in PathStrs},
     db : BOOLEAN]

----------------------------------------------------------------------------
\* No request is being served; nothing was encrypted or decrypted yet.
NoRequest ==
    /\ pc = "idle"
    /\ guard = "none"
    /\ req = None
    /\ resolved = None
    /\ lookup = None
    /\ calls = 0
    /\ db = None
    /\ result = None
NoCipherCall ==
    /\ rngLog = <<>>
    /\ last = None
    /\ dec = None

\* Encryption::default() is the no-op cipher.
Init ==
    /\ NoRequest
    /\ NoCipherCall
    /\ enc = None

\* A request is taken up when none is being served.
Accept(g, r) ==
    /\ guard' = g
    /\ req' = Some(r)
    /\ resolved' = Some(PermissionsFromRequest(r))
    /\ db' = None

Finish(res) ==
    /\ pc' = "done"
    /\ result' = Some(res)

\* An early return ends the extractor; otherwise the lookup is issued and awaited.
FinishOrIssueLookup(before) ==
    IF before.ok
    THEN /\ pc' = "awaiting"
         /\ lookup' = Some([org_id |-> before.val.org_id,
                            id_or_uid |-> before.val.id_or_uid,
                            answer |-> None])
         /\ calls' = calls + 1
         /\ result' = None
    ELSE /\ Finish(before)
         /\ lookup' = None
         /\ calls' = calls

AuthenticatedOrganization ==
    /\ pc = "idle"
    /\ \E r \in Requests :
        /\ Accept("OrganizationOnly", r)
        /\ Finish(AuthenticatedOrganizationFromRequest(r))
    /\ UNCHANGED <<lookup, calls>>
    /\ UNCHANGED encVars

AuthenticatedOrganizationWithApplicationBegin ==
    /\ pc = "idle"
    /\ \E r \in Requests :
        /\ Accept("OrganizationWithApplication", r)
        /\ FinishOrIssueLookup(OrgWithAppBeforeLookup(r))
    /\ UNCHANGED encVars

AuthenticatedApplicationBegin ==
    /\ pc = "idle"
    /\ \E r \in Requests :
        /\ Accept("ApplicationScoped", r)
        /\ FinishOrIssueLookup(AppBeforeLookup(r))
    /\ UNCHANGED encVars

\* The collaborator answers the lookup in flight from the table as it then stands,
\* and the extractor, resumed with the answer, runs to its end.
AuthenticatedOrganizationWithApplicationResume ==
    /\ pc = "awaiting"
    /\ guard = "OrganizationWithApplication"
    /\ \E s \in Stores :
        \E answer \in OneAnswers(s, Unwrap(lookup).org_id, Unwrap(lookup).id_or_uid) :
            /\ db' = Some(s)
            /\ lookup' = Some([Unwrap(lookup) EXCEPT !.answer = Some(answer)])
            /\ Finish(OrgWithAppAfterLookup(Unwrap(resolved).val, answer))
    /\ UNCHANGED <<guard, req, resolved, calls>>
    /\ UNCHANGED encVars

\* AuthenticatedApplicationResume issuing the lookup again when it failed.
AuthenticatedApplicationResumeRetrying ==
    /\ pc = "awaiting"
    /\ guard = "ApplicationScoped"
    /\ \E s \in Stores :
        \E answer \in OneAnswers(s, Unwrap(lookup).org_id, Unwrap(lookup).id_or_uid) :
            /\ db' = Some(s)
            /\ IF answer.ok \/ calls > 1
               THEN /\ lookup' = Some([Unwrap(lookup) EXCEPT !.answer = Some(answer)])
                    /\ Finish(AppAfterLookup(Unwrap(resolved).val, answer))
                    /\ calls' = calls
               ELSE /\ lookup' = lookup
                    /\ calls' = calls + 1
                    /\ UNCHANGED <<pc, result>>
    /\ UNCHANGED <<guard, req, resolved>>
    /\ UNCHANGED encVars

AuthenticatedApplicationResume ==
    /\ pc = "awaiting"
    /\ guard = "ApplicationScoped"
    /\ \E s \in Stores :
        \E answer \in OneAnswers(s, Unwrap(lookup).org_id, Unwrap(lookup).id_or_uid) :
            /\ db' = Some(s)
            /\ lookup' = Some([Unwrap(lookup) EXCEPT !.answer = Some(answer)])
            /\ Finish(AppAfterLookup(Unwrap(resolved).val, answer))
    /\ UNCHANGED <<guard, req, resolved, calls>>
    /\ UNCHANGED encVars

\* The request ends and what was built for it is dropped.
RequestEnds ==
    /\ pc = "done"
    /\ pc' = "idle"
    /\ guard' = "none"
    /\ req' = None
    /\ resolved' = None
    /\ lookup' = None
    /\ calls' = 0
    /\ db' = None
    /\ result' = None
    /\ UNCHANGED encVars

Next ==
    \/ AuthenticatedOrganization
    \/ AuthenticatedOrganizationWithApplicationBegin
    \/ AuthenticatedApplicationBegin
    \/ AuthenticatedOrganizationWithApplicationResume
    \/ AuthenticatedApplicationResume
    \/ RequestEnds

Spec == Init /\ [][Next]_vars

----------------------------------------------------------------------------
\* Encryption: XChaCha20-Poly1305 with the nonce in front of the sealed output.
NONCE_SIZE == 24
KEY_SIZE == 32
TAG_SIZE == 16
Byte == 256

RECURSIVE Xor(_, _)
Xor(a, b) ==
    IF a = 0 THEN b
    ELSE IF b = 0 THEN a
    ELSE ((a + b) % 2) + 2 * Xor(a \div 2, b \div 2)

RECURSIVE Mix(_, _)
\* A digest of a byte string, position-sensitive.
Mix(bytes, i) ==
    IF i > Len(bytes) THEN 0
    ELSE (i * (bytes[i] + 1) + 3 * Mix(bytes, i + 1)) % Byte

\* The XChaCha20 state a key and a nonce set up, and the key stream byte at position i.
Subkey(key, nonce) == (Mix(key, 1) + 5 * Mix(nonce, 1)) % Byte
KeyStream(subkey, i) == (subkey + 7 * i + 11) % Byte
\* The Poly1305 tag of the sealed bytes.
Tag(subkey, body) ==
    LET t == (3 * subkey + 13 * Mix(body, 1) + Len(body)) % Byte
    IN [j \in 1..TAG_SIZE |-> (t + j) % Byte]

\* cipher.encrypt(nonce, data): the data under the key stream, then the tag.
AeadEncrypt(key, nonce, data) ==
    LET subkey == Subkey(key, nonce)
        body == [i \in 1..Len(data) |-> Xor(data[i], KeyStream(subkey, i))]
    IN body \o Tag(subkey, body)
\* cipher.decrypt(nonce, ciphertext): fails on a missing or wrong tag.
AeadDecrypt(key, nonce, ciphertext) ==
    IF Len(ciphertext) < TAG_SIZE THEN Err("aead::Error")
    ELSE LET n == Len(ciphertext) - TAG_SIZE
             subkey == Subkey(key, nonce)
             body == SubSeq(ciphertext, 1, n)
         IN IF SubSeq(ciphertext, n + 1, Len(ciphertext)) /= Tag(subkey, body)
            THEN Err("aead::Error")
            ELSE Ok([i \in 1..n |-> Xor(body[i], KeyStream(subkey, i))])

Generic(msg) ==
    [variant |-> "Generic", kind |-> "Generic", code |-> None, detail |-> Some(<<msg>>)]

\* What a call did: returned a Result, or panicked.
Returned(res) == [panicked |-> FALSE, ret |-> Some(res)]
Panicked == [panicked |-> TRUE, ret |-> None]

\* Encryption::new_noop() and Encryption::new(key).
new_noop == None
EncryptionNew(key) == Some(key)

\* Encrypt with a constant nonce in place of the drawn one.
EncryptConstantNonce(e, data, rng) ==
    IF IsSome(e)
    THEN Returned(Ok([i \in 1..NONCE_SIZE |-> 0]
                     \o AeadEncrypt(Unwrap(e), [i \in 1..NONCE_SIZE |-> 0], data)))
    ELSE Returned(Ok(data))

\* Encryption::encrypt(data), rng being what thread_rng().gen() returns in the call.
Encrypt(e, data, rng) ==
    IF IsSome(e)
    THEN Returned(Ok(rng \o AeadEncrypt(Unwrap(e), rng, data)))
    ELSE Returned(Ok(data))

\* Decrypt cutting the nonce one byte short.
DecryptSplitEarly(e, ciphertext) ==
    IF IsSome(e)
    THEN IF Len(ciphertext) < NONCE_SIZE - 1
         THEN Panicked
         ELSE LET nonce == SubSeq(ciphertext, 1, NONCE_SIZE - 1)
                  rest == SubSeq(ciphertext, NONCE_SIZE, Len(ciphertext))
                  opened == AeadDecrypt(Unwrap(e), nonce, rest)
              IN IF opened.ok
                 THEN Returned(Ok(opened.val))
                 ELSE Returned(Err(Generic("Encryption failed")))
    ELSE Returned(Ok(ciphertext))

\* Encryption::decrypt(ciphertext): the slices at NONCE_SIZE panic on a shorter input.
Decrypt(e, ciphertext) ==
    IF IsSome(e)
    THEN IF Len(ciphertext) < NONCE_SIZE
         THEN Panicked
         ELSE LET nonce == SubSeq(ciphertext, 1, NONCE_SIZE)
                  rest == SubSeq(ciphertext, NONCE_SIZE + 1, Len(ciphertext))
                  opened == AeadDecrypt(Unwrap(e), nonce, rest)
              IN IF opened.ok
                 THEN Returned(Ok(opened.val))
                 ELSE Returned(Err(Generic("Encryption failed")))
    ELSE Returned(Ok(ciphertext))

\* The inputs of the model: keys, nonces and plaintexts.
KeyBytes(k) == [i \in 1..KEY_SIZE |-> (k * i) % Byte]
NonceBytes(n) == [i \in 1..NONCE_SIZE |-> (n + i * i) % Byte]
MainKeys == {KeyBytes(k) : k \in 1..NumEncKeys}
NonceDraws == {NonceBytes(n) : n \in 1..NumNonces}
ByteSamples == {0, 255}
Plaintexts == UNION {[1..n -> ByteSamples] : n \in 0..MaxDataLen}

\* What may be handed to decrypt: short strings, and a ciphertext this or another
\* Encryption produced, whole, cut short or with one byte changed.
CutLengths(c) ==
    {n \in {0, 1, NONCE_SIZE - 1, NONCE_SIZE, NONCE_SIZE + 1,
            NONCE_SIZE + TAG_SIZE - 1, Len(c) - 1, Len(c)} : n >= 0 /\ n <= Len(c)}
FlipAt(c, i) == [c EXCEPT ![i] = (c[i] + 1) % Byte]
Variants(c) ==
    {SubSeq(c, 1, n) : n \in CutLengths(c)}
    \cup {FlipAt(c, i) : i \in {j \in {1, NONCE_SIZE + 1, Len(c)} : j >= 1 /\ j <= Len(c)}}
DecryptInputs ==
    {<<>>}
    \cup (IF IsSome(last)
          THEN Variants(Unwrap(Unwrap(last).out.ret).val)
               \cup {Unwrap(Encrypt(EncryptionNew(k), Unwrap(last).data, NonceBytes(1)).ret).val :
                        k \in MainKeys}
          ELSE {})

CipherInit ==
    /\ NoRequest
    /\ NoCipherCall
    /\ enc \in {new_noop} \cup {EncryptionNew(k) : k \in MainKeys}

\* encrypt(data): an enabled cipher draws a nonce from the generator, a disabled one
\* draws nothing.
EncryptCall ==
    /\ Len(rngLog) < MaxEncrypts
    /\ \E data \in Plaintexts :
        \E rng \in IF IsSome(enc) THEN NonceDraws ELSE {<<>>} :
            /\ last' = Some([data |-> data, out |-> Encrypt(enc, data, rng)])
            /\ rngLog' = IF IsSome(enc) THEN Append(rngLog, rng) ELSE rngLog
    /\ dec' = None
    /\ UNCHANGED enc
    /\ UNCHANGED authVars

DecryptCall ==
    /\ \E input \in DecryptInputs :
        dec' = Some([input |-> input, outcome |-> Decrypt(enc, input)])
    /\ UNCHANGED <<enc, rngLog, last>>
    /\ UNCHANGED authVars

CipherNext ==
    \/ EncryptCall
    \/ DecryptCall

CipherSpec == CipherInit /\ [][CipherNext]_vars

----------------------------------------------------------------------------
\* What the properties read off a state.
TheRequest == Unwrap(req)
TheToken == Unwrap(TheRequest.bearer)
ThePermissions == Unwrap(resolved)
TheResult == Unwrap(result)
TheAnswer == Unwrap(Unwrap(lookup).answer)
LookupGuards == {"OrganizationWithApplication", "ApplicationScoped"}

\* The bearer token of the request passed verification under the configured secret.
TokenVerified ==
    /\ IsSome(req)
    /\ IsSome(TheRequest.cfg)
    /\ IsSome(TheRequest.bearer)
    /\ verify_token(Unwrap(TheRequest.cfg).jwt_secret.key, TheToken, TheRequest.now).ok

----------------------------------------------------------------------------
\* C1: every Permissions the resolver returns has app_id = Some(..) exactly when
\* type_ = Application; an Organization-typed one has app_id = None.
C1_AppIdIffApplication ==
    (IsSome(resolved) /\ ThePermissions.ok) =>
        /\ IsSome(ThePermissions.val.app_id) <=> ThePermissions.val.type_ = "Application"
        /\ ThePermissions.val.type_ = "Organization" => ThePermissions.val.app_id = None
        /\ ThePermissions.val.type_ \in {"Organization", "Application"}
C1_Witness ==
    /\ IsSome(resolved)
    /\ ThePermissions.ok
    /\ ThePermissions.val.type_ = "Application"
    /\ IsSome(ThePermissions.val.app_id)

\* C2: for a verified token that carries the org field, the organization field is
\* checked first: an invalid org gives BadRequest naming org whatever the subject
\* is; with a valid org, no subject gives Unauthorized and an invalid subject gives
\* BadRequest naming sub; with both valid the result is the Application permission
\* of exactly these two ids; never an Organization permission.
C2_OrgFieldFirst ==
    (TokenVerified /\ "org" \in DOMAIN TheToken.payload) =>
        LET payload == TheToken.payload
            org == payload["org"]
            hasSub == "sub" \in DOMAIN payload
        IN /\ ~ValidateOrganizationId(org) =>
                ThePermissions =
                    Err(bad_request(Some("bad token"),
                        Some(<<BT, "org", BT, " is not a valid ", "organization", " id">>)))
           /\ (ValidateOrganizationId(org) /\ ~hasSub) =>
                /\ ~ThePermissions.ok
                /\ ErrOf(ThePermissions).kind = "Unauthorized"
           /\ (ValidateOrganizationId(org) /\ hasSub
                    /\ ~ValidateApplicationId(payload["sub"])) =>
                ThePermissions =
                    Err(bad_request(Some("bad token"),
                        Some(<<BT, "sub", BT, " is not a valid ", "application", " id">>)))
           /\ (ValidateOrganizationId(org) /\ hasSub
                    /\ ValidateApplicationId(payload["sub"])) =>
                ThePermissions =
                    Ok(Permissions("Application", org, Some(payload["sub"])))
           /\ ~(ThePermissions.ok /\ ThePermissions.val.type_ = "Organization")
\* An invalid org field on a token without a subject: the org check came first.
C2_Witness ==
    /\ TokenVerified
    /\ "org" \in DOMAIN TheToken.payload
    /\ "sub" \notin DOMAIN TheToken.payload
    /\ ~ValidateOrganizationId(TheToken.payload["org"])
    /\ ErrOf(ThePermissions).kind = "BadRequest"

\* C3: a request whose token resolves to an Application permission is refused with
\* PermissionDenied by OrganizationOnly and by OrganizationWithApplication, whatever
\* the path and the table hold, and without any lookup being issued.
C3_ApplicationTokenDenied ==
    (IsSome(resolved) /\ ThePermissions.ok
        /\ ThePermissions.val.type_ = "Application"
        /\ guard \in {"OrganizationOnly", "OrganizationWithApplication"}) =>
        /\ pc = "done"
        /\ result = Some(Err(permission_denied(None, None)))
        /\ calls = 0
        /\ lookup = None
        /\ db = None
C3_Witness ==
    /\ guard = "OrganizationWithApplication"
    /\ IsSome(resolved)
    /\ ThePermissions.ok
    /\ ThePermissions.val.type_ = "Application"
    /\ IsSome(TheRequest.path)
    /\ TheRequest.db
    /\ result = Some(Err(permission_denied(None, None)))

\* The rows of the table, of any organization, that a path string names.
NamedBy(store, path) == {a \in store : a.id = path \/ a.uid = Some(path)}

\* The case of C4: ApplicationScoped has finished for an application token, the
\* lookup answered, and the path names rows of the table, none of them the token's
\* own application.
C4_Case ==
    /\ pc = "done"
    /\ guard = "ApplicationScoped"
    /\ calls = 1
    /\ TheAnswer.ok
    /\ ThePermissions.val.type_ = "Application"
    /\ NamedBy(Unwrap(db), Unwrap(TheRequest.path)) /= {}
    /\ \A a \in NamedBy(Unwrap(db), Unwrap(TheRequest.path)) :
            Some(a.id) /= ThePermissions.val.app_id

\* C4: in ApplicationScoped, an application token for A1 and a path naming an
\* existing application other than A1 (of the same or of another organization)
\* give NotFound, never PermissionDenied, and it is the very outcome the guard gives
\* that token when the lookup finds no application at all.
C4_MismatchIsNotFound ==
    C4_Case =>
        /\ result = Some(Err(not_found(None, None)))
        /\ ErrOf(TheResult).kind /= "PermissionDenied"
        /\ TheResult = AppAfterLookup(ThePermissions.val, Ok(None))
\* The lookup found the other application in the token's own organization, and
\* the comparison with the token's application turned it into NotFound.
C4_Witness ==
    /\ C4_Case
    /\ IsSome(TheAnswer.val)
    /\ Unwrap(TheAnswer.val).org_id = ThePermissions.val.org_id
    /\ ErrOf(TheResult).kind = "NotFound"

\* The organization a verified token speaks for.
TokenOrg == IF "org" \in DOMAIN TheToken.payload
            THEN TheToken.payload["org"]
            ELSE TheToken.payload["sub"]

\* C9: when OrganizationWithApplication or ApplicationScoped succeeds, the lookup
\* was scoped to permissions.org_id and the row returned is a row of that
\* organization, the one the token speaks for; for an application token the row of
\* ApplicationScoped has the id permissions.app_id.
C9_TenantIsolation ==
    (pc = "done" /\ guard \in LookupGuards /\ TheResult.ok) =>
        LET out == TheResult.val
            app == Unwrap(out.app)
        IN /\ out.permissions = ThePermissions.val
           /\ Unwrap(lookup).org_id = out.permissions.org_id
           /\ app \in Unwrap(db)
           /\ app.org_id = out.permissions.org_id
           /\ app.org_id = TokenOrg
           /\ out.permissions.type_ = "Application" =>
                out.permissions.app_id = Some(app.id)
\* Success for an application token while another organization holds a row that
\* the same path string names.
C9_Witness ==
    /\ pc = "done"
    /\ guard = "ApplicationScoped"
    /\ TheResult.ok
    /\ TheResult.val.permissions.type_ = "Application"
    /\ \E a \in NamedBy(Unwrap(db), Unwrap(TheRequest.path)) :
            a.org_id /= TheResult.val.permissions.org_id

\* C10: a guard issues the lookup at most once, only once the permissions are
\* resolved; it has no result while the lookup is in flight; a failed lookup is the
\* guard's result as it came, and the lookup is not issued again.
C10_LookupOnceAndPropagated ==
    /\ calls <= 1
    /\ calls = 1 =>
        /\ guard \in LookupGuards
        /\ IsSome(resolved)
        /\ ThePermissions.ok
        /\ IsSome(lookup)
    /\ pc = "awaiting" =>
        /\ calls = 1
        /\ result = None
        /\ Unwrap(lookup).answer = None
    /\ (pc = "done" /\ calls = 1) =>
        /\ IsSome(Unwrap(lookup).answer)
        /\ ~TheAnswer.ok => TheResult = TheAnswer
C10_Witness ==
    /\ pc = "done"
    /\ calls = 1
    /\ ~TheAnswer.ok
    /\ ErrOf(TheResult).variant = "Database"

\* Identifier strings of the model that pass validation.
ValidOrgIds == {x \in SubStrs \cup OrgClaimStrs : ValidateOrganizationId(x)}
ValidAppIds == {x \in SubStrs \cup OrgClaimStrs : ValidateApplicationId(x)}

\* C8: a token minted by generate_org_token for a valid org id, verified within its
\* validity under the minting secret, resolves to the Organization permission of
\* that org id; one minted by generate_app_token for valid ids resolves to the
\* Application permission of exactly that org id and app id.
C8_MintThenResolve ==
    (IsSome(req) /\ IsSome(TheRequest.cfg) /\ IsSome(TheRequest.bearer)) =>
        LET keys == Unwrap(TheRequest.cfg).jwt_secret IN
        /\ \A o \in ValidOrgIds :
            (TheToken = generate_org_token(keys, o, 0)
                /\ TheRequest.now <= ORG_TOKEN_HOURS) =>
                ThePermissions = Ok(Permissions("Organization", o, None))
        /\ \A o \in ValidOrgIds, a \in ValidAppIds :
            (TheToken = generate_app_token(keys, o, a, 0)
                /\ TheRequest.now <= APP_TOKEN_HOURS) =>
                ThePermissions = Ok(Permissions("Application", o, Some(a)))
C8_Witness ==
    /\ IsSome(req)
    /\ IsSome(TheRequest.cfg)
    /\ IsSome(TheRequest.bearer)
    /\ \E o \in ValidOrgIds, a \in ValidAppIds :
        /\ TheToken = generate_app_token(Unwrap(TheRequest.cfg).jwt_secret, o, a, 0)
        /\ ThePermissions = Ok(Permissions("Application", o, Some(a)))

----------------------------------------------------------------------------
\* The last encrypt call's data and output, and the last decrypt call.
LastData == Unwrap(last).data
LastOut == Unwrap(Unwrap(last).out.ret).val
TheDecrypt == Unwrap(dec)

\* C5 as stated: an enabled cipher answers any input shorter than the nonce with
\* the generic decryption error.
C5_ShortInputIsGenericError ==
    (IsSome(enc) /\ IsSome(dec) /\ Len(TheDecrypt.input) < NONCE_SIZE) =>
        TheDecrypt.outcome = Returned(Err(Generic("Encryption failed")))

\* C6: an enabled cipher's output is the 24-byte nonce followed by the AEAD output
\* for that nonce, and decrypt of it under the same key gives back the data.
C6_RoundTrip ==
    (IsSome(enc) /\ IsSome(last)) =>
        /\ ~Unwrap(last).out.panicked
        /\ Unwrap(Unwrap(last).out.ret).ok
        /\ Len(LastOut) = NONCE_SIZE + Len(LastData) + TAG_SIZE
        /\ SubSeq(LastOut, 1, NONCE_SIZE) \in NonceDraws
        /\ SubSeq(LastOut, NONCE_SIZE + 1, Len(LastOut))
               = AeadEncrypt(Unwrap(enc), SubSeq(LastOut, 1, NONCE_SIZE), LastData)
        /\ (IsSome(dec) /\ TheDecrypt.input = LastOut) =>
               TheDecrypt.outcome = Returned(Ok(LastData))
C6_Witness ==
    /\ IsSome(enc)
    /\ IsSome(last)
    /\ IsSome(dec)
    /\ Len(LastData) >= 1
    /\ TheDecrypt.input = LastOut
    /\ TheDecrypt.outcome = Returned(Ok(LastData))

\* C7 as stated: no nonce value is used by two encrypt calls of an enabled cipher.
C7_NoNonceUsedTwice ==
    IsSome(enc) =>
        \A i, j \in 1..Len(rngLog) : i /= j => rngLog[i] /= rngLog[j]

\* C7 as amended: every encrypt call of an enabled cipher draws one nonce from the
\* random generator and that draw, not a stored or constant value, is the nonce at
\* the head of its output.
C7_NonceDrawnInEachCall ==
    (IsSome(enc) /\ IsSome(last)) =>
        /\ Len(rngLog) >= 1
        /\ SubSeq(LastOut, 1, NONCE_SIZE) = rngLog[Len(rngLog)]
C7_Witness ==
    /\ IsSome(enc)
    /\ IsSome(last)
    /\ Len(rngLog) >= 2
    /\ SubSeq(LastOut, 1, NONCE_SIZE) = rngLog[Len(rngLog)]

====
